---- MODULE Spec2Model ----
(***************************************************************************)
(* Model of iotc-pnp-app.py, the IoTConnect self-updating client:          *)
(*   - the Shared JSON Store (safe_read_json / safe_write_json),           *)
(*   - the Command Relay (on_command),                                      *)
(*   - the Update Engine (on_ota, extract_and_run_tar_gz),                  *)
(*   - the restart by os.execv,                                             *)
(*   - the session loop of the main program and its exit paths.             *)
(***************************************************************************)
EXTENDS Integers, Sequences, FiniteSets, TLC

(***************************************************************************)
(* Bounds of the model.                                                    *)
(***************************************************************************)
MaxArgs == 2        \* longest command argument list
MaxUrls == 2        \* longest OTA artifact list
MaxRestarts == 2    \* self-restarts followed in one behaviour
MaxTicks == 1       \* sleeps of the session loop followed in one behaviour
MaxNest == 1        \* containers wrapped around a base JSON document
NumProcs == 3       \* processes using one file of the store at a time

(***************************************************************************)
(* Program constants.                                                      *)
(***************************************************************************)
COMMAND_BUFFER_PATH == "/home/weston/demo/command-buffer.json"
DATA_BUFFER_PATH == "/home/weston/demo/data-buffer.json"
DATA_FREQUENCY == 5
IndentWidth == 4
StartTime == 8      \* epoch second at which a behaviour starts
sys_executable == "/usr/bin/python3"
ScriptFile == "/home/weston/demo/iotc-pnp-app.py"     \* __file__
None == "<None>"

Paths == {COMMAND_BUFFER_PATH, DATA_BUFFER_PATH}

(***************************************************************************)
(* Strings.  TLC treats a string as a sequence of characters for Len,      *)
(* SubSeq and \o.                                                          *)
(***************************************************************************)
At(s, i) == IF i >= 1 /\ i <= Len(s) THEN SubSeq(s, i, i) ELSE ""

\* s[i-1:j] of Python: a slice clipped to the string
Slice(s, i, j) ==
    IF i > Len(s) THEN "" ELSE SubSeq(s, i, IF j > Len(s) THEN Len(s) ELSE j)

endswith(s, suffix) ==
    /\ Len(s) >= Len(suffix)
    /\ Slice(s, Len(s) - Len(suffix) + 1, Len(s)) = suffix

(***************************************************************************)
(* JSON documents.  Every value is a record of one shape, so that any two  *)
(* values can be compared: t is the type, s the string payload (or member  *)
(* key), n the integer payload, kids the elements or members.              *)
(***************************************************************************)
JNull == [t |-> "null", s |-> "", n |-> 0, kids |-> <<>>]
JBool(b) == [t |-> IF b THEN "true" ELSE "false", s |-> "", n |-> 0, kids |-> <<>>]
JInt(n) == [t |-> "int", s |-> "", n |-> n, kids |-> <<>>]
JStr(s) == [t |-> "str", s |-> s, n |-> 0, kids |-> <<>>]
JArr(vs) == [t |-> "arr", s |-> "", n |-> 0, kids |-> vs]
JMember(k, v) == [t |-> "member", s |-> k, n |-> 0, kids |-> <<v>>]
JObj(ms) == [t |-> "obj", s |-> "", n |-> 0, kids |-> ms]

(***************************************************************************)
(* json.dump(data, f, indent=4): the text the encoder produces.            *)
(***************************************************************************)
Digits == "0123456789"

RECURSIVE NatToStr(_)
NatToStr(n) ==
    IF n < 10 THEN At(Digits, n + 1)
    ELSE NatToStr(n \div 10) \o At(Digits, (n % 10) + 1)

IntToStr(n) == IF n < 0 THEN "-" \o NatToStr(0 - n) ELSE NatToStr(n)

EscapeChar(c) ==
    IF c = "\"" THEN "\\\""
    ELSE IF c = "\\" THEN "\\\\"
    ELSE IF c = "\n" THEN "\\n"
    ELSE c

RECURSIVE Escape(_, _)
Escape(s, i) ==
    IF i > Len(s) THEN "" ELSE EscapeChar(At(s, i)) \o Escape(s, i + 1)

EncodeStr(s) == "\"" \o Escape(s, 1) \o "\""

RECURSIVE Spaces(_)
Spaces(k) == IF k = 0 THEN "" ELSE " " \o Spaces(k - 1)

NewlineIndent(level) == "\n" \o Spaces(IndentWidth * level)

RECURSIVE Dump(_, _), DumpItems(_, _, _)
Dump(v, level) ==
    CASE v.t = "null" -> "null"
      [] v.t = "true" -> "true"
      [] v.t = "false" -> "false"
      [] v.t = "int" -> IntToStr(v.n)
      [] v.t = "str" -> EncodeStr(v.s)
      [] v.t = "arr" ->
            IF v.kids = <<>> THEN "[]"
            ELSE "[" \o DumpItems(v.kids, 1, level + 1) \o NewlineIndent(level) \o "]"
      [] v.t = "obj" ->
            IF v.kids = <<>> THEN "{}"
            ELSE "{" \o DumpItems(v.kids, 1, level + 1) \o NewlineIndent(level) \o "}"
      [] v.t = "member" -> EncodeStr(v.s) \o ": " \o Dump(v.kids[1], level)
DumpItems(items, i, level) ==
    IF i > Len(items) THEN ""
    ELSE (IF i > 1 THEN "," ELSE "") \o NewlineIndent(level)
         \o Dump(items[i], level) \o DumpItems(items, i + 1, level)

json_dump(data) == Dump(data, 0)

(***************************************************************************)
(* json.load(f): the decoder, a recursive-descent scanner over the text.   *)
(* A scan returns [ok, v, pos]: pos is the index after the value.          *)
(***************************************************************************)
ScanFail == [ok |-> FALSE, v |-> JNull, pos |-> 0]
ScanOk(v, pos) == [ok |-> TRUE, v |-> v, pos |-> pos]

Whitespace == {" ", "\n", "\t", "\r"}

RECURSIVE SkipWs(_, _)
SkipWs(s, i) == IF At(s, i) \in Whitespace THEN SkipWs(s, i + 1) ELSE i

\* i is the index after the opening quote; acc is the text decoded so far
RECURSIVE ScanString(_, _, _)
ScanString(s, i, acc) ==
    LET c == At(s, i)
        e == At(s, i + 1)
    IN  IF c = "" \/ c = "\n" THEN ScanFail
        ELSE IF c = "\"" THEN ScanOk(JStr(acc), i + 1)
        ELSE IF c = "\\" THEN
            IF e = "\"" THEN ScanString(s, i + 2, acc \o "\"")
            ELSE IF e = "\\" THEN ScanString(s, i + 2, acc \o "\\")
            ELSE IF e = "/" THEN ScanString(s, i + 2, acc \o "/")
            ELSE IF e = "n" THEN ScanString(s, i + 2, acc \o "\n")
            ELSE IF e = "t" THEN ScanString(s, i + 2, acc \o "\t")
            ELSE IF e = "r" THEN ScanString(s, i + 2, acc \o "\r")
            ELSE ScanFail
        ELSE ScanString(s, i + 1, acc \o c)

IsDigit(c) == c # "" /\ \E d \in 1..10 : At(Digits, d) = c
DigitVal(c) == (CHOOSE d \in 1..10 : At(Digits, d) = c) - 1

RECURSIVE ScanDigits(_, _, _)
ScanDigits(s, i, acc) ==
    IF IsDigit(At(s, i)) THEN ScanDigits(s, i + 1, acc * 10 + DigitVal(At(s, i)))
    ELSE [n |-> acc, pos |-> i]

\* NUMBER_RE: -?(0|[1-9][0-9]*); fraction and exponent are not modelled
ScanNumber(s, i) ==
    LET neg == At(s, i) = "-"
        j == IF neg THEN i + 1 ELSE i
        c == At(s, j)
        d == IF c = "0" THEN [n |-> 0, pos |-> j + 1] ELSE ScanDigits(s, j, 0)
    IN  IF ~IsDigit(c) THEN ScanFail
        ELSE ScanOk(JInt(IF neg THEN 0 - d.n ELSE d.n), d.pos)

\* a dict keeps one value per key: a repeated key replaces the value
RECURSIVE SetMember(_, _, _, _)
SetMember(ms, i, k, v) ==
    IF i > Len(ms) THEN Append(ms, JMember(k, v))
    ELSE IF ms[i].s = k THEN [ms EXCEPT ![i] = JMember(k, v)]
    ELSE SetMember(ms, i + 1, k, v)

RECURSIVE ScanOnce(_, _), ScanMembers(_, _, _), ScanElements(_, _, _)
\* i is the index of the opening quote of the next key
ScanMembers(s, i, acc) ==
    LET key == ScanString(s, i + 1, "")
        colon == SkipWs(s, key.pos)
        val == ScanOnce(s, SkipWs(s, colon + 1))
        after == SkipWs(s, val.pos)
        nxt == SkipWs(s, after + 1)
    IN  IF ~key.ok THEN ScanFail
        ELSE IF At(s, colon) # ":" THEN ScanFail
        ELSE IF ~val.ok THEN ScanFail
        ELSE IF At(s, after) = "}"
            THEN ScanOk(JObj(SetMember(acc, 1, key.v.s, val.v)), after + 1)
        ELSE IF At(s, after) # "," THEN ScanFail
        ELSE IF At(s, nxt) # "\"" THEN ScanFail
        ELSE ScanMembers(s, nxt, SetMember(acc, 1, key.v.s, val.v))
\* i is the index of the next element
ScanElements(s, i, acc) ==
    LET val == ScanOnce(s, i)
        after == SkipWs(s, val.pos)
    IN  IF ~val.ok THEN ScanFail
        ELSE IF At(s, after) = "]" THEN ScanOk(JArr(Append(acc, val.v)), after + 1)
        ELSE IF At(s, after) # "," THEN ScanFail
        ELSE ScanElements(s, SkipWs(s, after + 1), Append(acc, val.v))
ScanOnce(s, i) ==
    LET c == At(s, i)
        j == SkipWs(s, i + 1)
    IN  IF c = "\"" THEN ScanString(s, i + 1, "")
        ELSE IF c = "{" THEN
            IF At(s, j) = "}" THEN ScanOk(JObj(<<>>), j + 1)
            ELSE IF At(s, j) # "\"" THEN ScanFail
            ELSE ScanMembers(s, j, <<>>)
        ELSE IF c = "[" THEN
            IF At(s, j) = "]" THEN ScanOk(JArr(<<>>), j + 1)
            ELSE ScanElements(s, j, <<>>)
        ELSE IF c = "n" /\ Slice(s, i, i + 3) = "null" THEN ScanOk(JNull, i + 4)
        ELSE IF c = "t" /\ Slice(s, i, i + 3) = "true" THEN ScanOk(JBool(TRUE), i + 4)
        ELSE IF c = "f" /\ Slice(s, i, i + 4) = "false" THEN ScanOk(JBool(FALSE), i + 5)
        ELSE ScanNumber(s, i)

\* json.load: one value, white space around it, nothing after it
json_load(text) ==
    LET r == ScanOnce(text, SkipWs(text, 1))
    IN  IF r.ok /\ SkipWs(text, r.pos) = Len(text) + 1
        THEN [ok |-> TRUE, v |-> r.v]
        ELSE [ok |-> FALSE, v |-> JNull]

(***************************************************************************)
(* Files.  A file is absent or holds a text.                               *)
(***************************************************************************)
FAbsent == [exists |-> FALSE, text |-> ""]
FText(t) == [exists |-> TRUE, text |-> t]

\* open(path, "a") in place of "w": an existing text is kept
open_a(f) == IF f.exists THEN f ELSE FText("")

\* open(path, "w"): the file is created, or truncated to nothing
open_w(f) == FText("")

\* safe_write_json(path, data), when open() succeeds
safe_write_json(f, data) == FText(open_w(f).text \o json_dump(data))

\* safe_read_json(path): FileNotFoundError, JSONDecodeError or the document
safe_read_json(f) ==
    IF ~f.exists THEN [ok |-> FALSE, err |-> "FileNotFoundError", v |-> JNull]
    ELSE LET r == json_load(f.text)
         IN  IF r.ok THEN [ok |-> TRUE, err |-> "", v |-> r.v]
             ELSE [ok |-> FALSE, err |-> "JSONDecodeError", v |-> JNull]

(***************************************************************************)
(* The JSON documents and the earlier file contents the model draws from.  *)
(***************************************************************************)
BaseDocs ==
    { JNull, JInt(0), JInt(-7), JInt(1730), JStr(""), JStr(" a\"b\\c\nd"),
      JArr(<<>>), JObj(<<>>),
      JArr(<<JInt(10), JStr("x"), JBool(FALSE)>>),
      JObj(<<JMember("temp", JInt(21)), JMember("ok", JBool(TRUE))>>),
      JObj(<<JMember("command", JStr("reboot")), JMember("parameters", JStr(" now")),
             JMember("timestamp", JInt(StartTime))>>) }

\* the documents nested k containers deep around the two seed documents
RECURSIVE NestedDocs(_)
NestedDocs(k) ==
    IF k = 0 THEN {JStr("x\"y"), JObj(<<JMember("temp", JInt(21))>>)}
    ELSE LET inner == NestedDocs(k - 1)
         IN  {JArr(<<d, JInt(k)>>) : d \in inner}
                 \cup {JObj(<<JMember("k", JInt(k)), JMember("v", d)>>) : d \in inner}

JsonDocs == BaseDocs \cup UNION {NestedDocs(k) : k \in 1..MaxNest}

PriorContents ==
    { FAbsent, FText(""), FText("{\"command\": \"stale\""),
      FText(json_dump(JObj(<<JMember("command", JStr("old"))>>))) }

(***************************************************************************)
(* State.                                                                  *)
(***************************************************************************)
VARIABLES
    files,      \* the two buffer files: path -> file
    written,    \* store specification: per path, the last safe_write_json
                \* since any other write, and whether it was written over
                \* an earlier text
    readres,    \* store specification: the result of the last
                \* safe_read_json since any write
    procs,      \* lock specification: per process, its call of
                \* safe_read_json or safe_write_json and how far it is
    locks,      \* lock specification: per process, the flock it holds
    pc,         \* main program: "start", "loop" (top of the while loop),
                \* "sleep" (in time.sleep) or "exited"
    exit_status,        \* the exit status, -1 while the process runs
    exit_cause,         \* what ended the process
    connected,          \* c.is_connected()
    argv,               \* sys.argv of the running process image
    orig_argv,          \* sys.argv the agent was first invoked with
    restarts,           \* self-restarts so far
    now,                \* int(time.time())
    install_sh,         \* install.sh exists in the working directory
    pkg,                \* package.tar.gz exists in the working directory
    mainlog,    \* what the main program did since the top of the current
                \* iteration (since the start, before the first iteration)
    events,     \* what the callback running now, or the last one, did
    cb_result,  \* how the last callback ended: "returned", "raised",
                \* "restarted", or "none"
    last_cb,    \* the message of that callback
    ota_pc,             \* on_ota: "idle", "loop" or "finish"
    ota_urls,           \* on_ota: msg.urls, as the file names
    ota_i,              \* on_ota: index of the next artifact
    extraction_success  \* on_ota: the local variable

lockvars == <<procs, locks>>
storevars == <<written, readres, procs, locks>>
otavars == <<ota_pc, ota_urls, ota_i, extraction_success>>
vars == <<files, written, readres, procs, locks, pc, exit_status, exit_cause, connected, argv,
          orig_argv, restarts, now, install_sh, pkg, mainlog, events, cb_result,
          last_cb, ota_pc, ota_urls, ota_i, extraction_success>>

NotWritten == [set |-> FALSE, v |-> JNull, over |-> FALSE]
NoRead == [valid |-> FALSE, path |-> "", ok |-> FALSE, v |-> JNull]

agentvars == <<pc, exit_status, exit_cause, connected, argv, orig_argv, restarts,
               now, install_sh, pkg, mainlog, events, cb_result, last_cb,
               ota_pc, ota_urls, ota_i, extraction_success>>

NoMessage == [kind |-> "none", name |-> "", args |-> <<>>, ack_id |-> None]

Procs == 1..NumProcs
IdleProc == [op |-> "none", pc |-> "idle", buf |-> "", pos |-> 0, res |-> ""]

\* no process is inside a call of the store
LockIdle ==
    /\ procs = [p \in Procs |-> IdleProc]
    /\ locks = [p \in Procs |-> "none"]

\* the agent's part of the state before the agent has run
AgentIdle ==
    /\ pc = "start" /\ exit_status = -1 /\ exit_cause = "" /\ connected = FALSE
    /\ argv = <<ScriptFile>> /\ orig_argv = <<ScriptFile>> /\ restarts = 0
    /\ now = StartTime /\ install_sh = FALSE /\ pkg = FALSE
    /\ mainlog = <<>> /\ events = <<>> /\ cb_result = "none" /\ last_cb = NoMessage
    /\ ota_pc = "idle" /\ ota_urls = <<>> /\ ota_i = 0 /\ extraction_success = FALSE

(***************************************************************************)
(* The Shared JSON Store on its own: writes and reads of any document to   *)
(* any of the paths, and writes by other means.                            *)
(***************************************************************************)
JsonInit ==
    /\ files \in [Paths -> PriorContents]
    /\ written = [p \in Paths |-> NotWritten]
    /\ readres = NoRead
    /\ LockIdle
    /\ AgentIdle

JsonWrite(p, D) ==
    /\ files' = [files EXCEPT ![p] = safe_write_json(files[p], D)]
    /\ written' = [written EXCEPT ![p] = [set |-> TRUE, v |-> D, over |-> files[p].text # ""]]
    /\ readres' = NoRead
    /\ UNCHANGED lockvars
    /\ UNCHANGED agentvars

JsonRead(p) ==
    /\ readres' = [valid |-> TRUE, path |-> p,
                   ok |-> safe_read_json(files[p]).ok, v |-> safe_read_json(files[p]).v]
    /\ UNCHANGED <<files, written>>
    /\ UNCHANGED lockvars
    /\ UNCHANGED agentvars

\* another program replaces or removes the file without the store
ForeignWrite(p, f) ==
    /\ files[p] # f
    /\ files' = [files EXCEPT ![p] = f]
    /\ written' = [written EXCEPT ![p] = NotWritten]
    /\ readres' = NoRead
    /\ UNCHANGED lockvars
    /\ UNCHANGED agentvars

JsonNext ==
    \/ \E p \in Paths, D \in JsonDocs : JsonWrite(p, D)
    \/ \E p \in Paths : JsonRead(p)
    \/ \E p \in Paths, f \in PriorContents : ForeignWrite(p, f)

SpecJson == JsonInit /\ [][JsonNext]_vars

\* C10: safe_write_json(p, D) followed by safe_read_json(p), with no other
\* write in between, returns a document equal to D, whatever the file held
\* before the write.
C10_RoundTrip ==
    (readres.valid /\ written[readres.path].set)
        => (readres.ok /\ readres.v = written[readres.path].v)

\* a nested document was written over an earlier text and read back
C10_Witness ==
    /\ readres.valid /\ readres.ok
    /\ written[readres.path].set
    /\ written[readres.path].over
    /\ readres.v.t = "obj" /\ Len(readres.v.kids) = 2
    /\ readres.v.kids[2].kids[1].t = "obj"

(***************************************************************************)
(* The agent.  Callbacks run to completion between two steps of the main   *)
(* program (one logical thread of control).                                *)
(***************************************************************************)
Ev(e, a, i) == [e |-> e, a |-> a, i |-> i]

RECURSIVE SeqsUpTo(_, _)
SeqsUpTo(S, n) ==
    IF n = 0 THEN {<<>>}
    ELSE LET shorter == SeqsUpTo(S, n - 1)
         IN  shorter \cup {Append(q, x) : q \in shorter, x \in S}

\* a cleanup that never removes the file
cleanup_keeps_file(f) == f

\* cleanup_command_buffer(): the file is removed if it exists
cleanup_command_buffer(f) == IF f.exists THEN FAbsent ELSE f

\* what cleanup_command_buffer() does to a file f
CleanupLog(f) ==
    IF f.exists THEN <<"cleanup_command_buffer", "os.remove">>
    ELSE <<"cleanup_command_buffer">>

\* sys.exit(1) in place of sys.exit(2) when the connection fails
ExitStatusOne(cause) ==
    CASE cause = "KeyboardInterrupt" -> 0
      [] OTHER -> 1

\* the exit status of sys.exit, and of an uncaught exception
ExitStatus(cause) ==
    CASE cause = "KeyboardInterrupt" -> 0
      [] cause = "DeviceConfigError" -> 1
      [] cause = "unable_to_connect" -> 2
      [] OTHER -> 1

(***************************************************************************)
(* extract_and_run_tar_gz(targz_filename).  o is what the environment      *)
(* does: o.tar the end of tar ("ok", "fail" = non-zero exit, "launch" =    *)
(* tar could not be started), o.has_install whether the archive holds      *)
(* install.sh, o.partial whether a failed extraction left an install.sh,   *)
(* o.run the end of bash install.sh ("ok", "nonzero", "error"), o.rm1 and  *)
(* o.rm2 whether the first and the second os.remove succeed.  sh tells     *)
(* whether install.sh exists before the call, i names the artifact.        *)
(* Returns ret ("True", "False" or "raised"), sh after the call, and the   *)
(* steps taken.                                                            *)
(***************************************************************************)
ExtractOutcomes ==
    {[tar |-> "launch", has_install |-> FALSE, partial |-> FALSE,
      run |-> "ok", rm1 |-> TRUE, rm2 |-> TRUE]}
    \cup {[tar |-> "fail", has_install |-> FALSE, partial |-> b,
           run |-> "ok", rm1 |-> TRUE, rm2 |-> TRUE] : b \in BOOLEAN}
    \cup {[tar |-> "ok", has_install |-> b, partial |-> FALSE,
           run |-> r, rm1 |-> TRUE, rm2 |-> TRUE] : b \in BOOLEAN, r \in {"ok", "nonzero", "error"}}
    \cup {[tar |-> "ok", has_install |-> TRUE, partial |-> FALSE,
           run |-> r, rm1 |-> FALSE, rm2 |-> b] : b \in BOOLEAN, r \in {"ok", "nonzero", "error"}}

extract_and_run_tar_gz(o, sh, i) ==
    LET found == sh \/ o.has_install      \* os.path.isfile(script_file_path)
        \* the check, with where the script it finds came from
        isfile == Ev("os.path.isfile",
                     IF o.has_install THEN "extracted"
                     ELSE IF sh THEN "stale" ELSE "absent", i)
        done(ret, sh2, steps) ==
            [ret |-> ret, sh |-> sh2,
             ev |-> steps \o <<Ev("extract_and_run_tar_gz", ret, i)>>]
    IN  IF o.tar = "launch" THEN done("raised", sh, <<Ev("tar", "launch", i)>>)
        ELSE IF o.tar = "fail" THEN done("False", sh \/ o.partial, <<Ev("tar", "fail", i)>>)
        ELSE IF ~found THEN done("True", FALSE, <<Ev("tar", "ok", i), isfile>>)
        ELSE IF o.run = "ok" THEN
            IF o.rm1 THEN
                done("True", FALSE,
                     <<Ev("tar", "ok", i), isfile, Ev("install.sh", "ok", i), Ev("os.remove", "ok", i)>>)
            ELSE IF o.rm2 THEN
                done("False", FALSE,
                     <<Ev("tar", "ok", i), isfile, Ev("install.sh", "ok", i), Ev("os.remove", "fail", i),
                       Ev("os.remove", "ok", i)>>)
            ELSE
                done("raised", TRUE,
                     <<Ev("tar", "ok", i), isfile, Ev("install.sh", "ok", i), Ev("os.remove", "fail", i),
                       Ev("os.remove", "fail", i)>>)
        ELSE IF o.rm1 THEN
            done("False", FALSE,
                 <<Ev("tar", "ok", i), isfile, Ev("install.sh", o.run, i), Ev("os.remove", "ok", i)>>)
        ELSE
            done("raised", TRUE,
                 <<Ev("tar", "ok", i), isfile, Ev("install.sh", o.run, i), Ev("os.remove", "fail", i)>>)

(***************************************************************************)
(* os.execv(sys.executable, [sys.executable, __file__] + [sys.argv[0]]):   *)
(* the process image is replaced; the interpreter of the new image sets    *)
(* sys.argv to the arguments after the executable.                         *)
(***************************************************************************)
execv_args(av) == <<sys_executable, ScriptFile>> \o <<av[1]>>

Execv ==
    /\ pc' = "start"
    /\ connected' = FALSE
    /\ argv' = Tail(execv_args(argv))
    /\ restarts' = restarts + 1
    /\ mainlog' = <<>>
    /\ UNCHANGED <<exit_status, exit_cause, orig_argv>>

(***************************************************************************)
(* The main program.                                                       *)
(***************************************************************************)
ClearCallback ==
    /\ events' = <<>> /\ cb_result' = "none" /\ last_cb' = NoMessage

Exit(cause) ==
    /\ pc' = "exited"
    /\ exit_cause' = cause
    /\ exit_status' = ExitStatus(cause)

\* lines 280-296 and 317-321: load the configuration, make the client
Startup(cfg) ==
    /\ pc = "start"
    /\ IF cfg = "ok"
       THEN /\ pc' = "loop"
            /\ mainlog' = <<>>
            /\ UNCHANGED <<files, exit_status, exit_cause>>
       ELSE /\ files' = [files EXCEPT ![COMMAND_BUFFER_PATH] = cleanup_command_buffer(@)]
            /\ mainlog' = <<"DeviceConfigError">> \o CleanupLog(files[COMMAND_BUFFER_PATH])
                           \o <<"sys.exit">>
            /\ Exit("DeviceConfigError")
    /\ connected' = FALSE
    /\ ClearCallback
    /\ UNCHANGED <<argv, orig_argv, restarts, now, install_sh, pkg>>
    /\ UNCHANGED storevars /\ UNCHANGED otavars

\* the loop never calls connect
reconnect_never(is_connected) == <<>>

\* lines 301-302: if not c.is_connected(): c.connect()
reconnect(is_connected) == IF is_connected THEN <<>> ELSE <<"connect">>

\* lines 299-312: one iteration of the loop, up to the sleep; conn tells
\* whether c.connect() leaves the client connected
Iteration(conn) ==
    /\ pc = "loop" /\ ota_pc = "idle"
    /\ connected => conn
    /\ LET pre == reconnect(connected)
           telemetry == safe_read_json(files[DATA_BUFFER_PATH])
       IN  IF ~conn
           THEN /\ files' = [files EXCEPT ![COMMAND_BUFFER_PATH] = cleanup_command_buffer(@)]
                /\ mainlog' = pre \o <<"not_connected">>
                               \o CleanupLog(files[COMMAND_BUFFER_PATH]) \o <<"sys.exit">>
                /\ connected' = FALSE
                /\ Exit("unable_to_connect")
           ELSE IF ~telemetry.ok
           THEN /\ mainlog' = pre \o <<"safe_read_json", telemetry.err>>
                /\ connected' = FALSE
                /\ Exit(telemetry.err)
                /\ UNCHANGED files
           ELSE /\ mainlog' = pre \o <<"safe_read_json", "send_telemetry">>
                /\ connected' = TRUE
                /\ pc' = "sleep"
                /\ UNCHANGED <<files, exit_status, exit_cause>>
    /\ ClearCallback
    /\ UNCHANGED <<argv, orig_argv, restarts, now, install_sh, pkg>>
    /\ UNCHANGED storevars /\ UNCHANGED otavars

\* line 315: time.sleep(DATA_FREQUENCY) ends
Wake ==
    /\ pc = "sleep" /\ ota_pc = "idle"
    /\ now < StartTime + MaxTicks * DATA_FREQUENCY
    /\ pc' = "loop"
    /\ now' = now + DATA_FREQUENCY
    /\ mainlog' = <<>>
    /\ ClearCallback
    /\ UNCHANGED <<files, exit_status, exit_cause, connected, argv, orig_argv,
                   restarts, install_sh, pkg>>
    /\ UNCHANGED storevars /\ UNCHANGED otavars

\* lines 323-329: KeyboardInterrupt in the try block.  Before the client is
\* made, the handler's c.is_connected() raises NameError.
Interrupt ==
    /\ pc \in {"start", "loop", "sleep"} /\ ota_pc = "idle"
    /\ IF pc = "start"
       THEN /\ mainlog' = <<"KeyboardInterrupt", "NameError">>
            /\ Exit("NameError")
            /\ UNCHANGED files
       ELSE /\ mainlog' = <<"KeyboardInterrupt">>
                    \o (IF connected THEN <<"disconnect">> ELSE <<>>)
                    \o CleanupLog(files[COMMAND_BUFFER_PATH]) \o <<"sys.exit">>
            /\ files' = [files EXCEPT ![COMMAND_BUFFER_PATH] = cleanup_command_buffer(@)]
            /\ Exit("KeyboardInterrupt")
    /\ connected' = FALSE
    /\ ClearCallback
    /\ UNCHANGED <<argv, orig_argv, restarts, now, install_sh, pkg>>
    /\ UNCHANGED storevars /\ UNCHANGED otavars

\* lines 264-273: on_disconnect only prints; the client is disconnected
OnDisconnect ==
    /\ pc \in {"loop", "sleep"} /\ connected /\ ota_pc = "idle"
    /\ connected' = FALSE
    /\ last_cb' = [kind |-> "disconnect", name |-> "", args |-> <<>>, ack_id |-> None]
    /\ events' = <<>>
    /\ cb_result' = "returned"
    /\ UNCHANGED <<files, pc, exit_status, exit_cause, argv, orig_argv, restarts, now,
                   install_sh, pkg, mainlog>>
    /\ UNCHANGED storevars /\ UNCHANGED otavars

\* the local application writes a telemetry document
ProducerWrite(D) ==
    /\ pc # "exited"
    /\ files[DATA_BUFFER_PATH] # safe_write_json(files[DATA_BUFFER_PATH], D)
    /\ files' = [files EXCEPT ![DATA_BUFFER_PATH] = safe_write_json(@, D)]
    /\ UNCHANGED <<pc, exit_status, exit_cause, connected, argv, orig_argv, restarts,
                   now, install_sh, pkg, mainlog, events, cb_result, last_cb>>
    /\ UNCHANGED storevars /\ UNCHANGED otavars

\* the Platform Client delivers a callback only to a connected, running agent
CallbackReady ==
    /\ pc \in {"loop", "sleep"}
    /\ connected
    /\ ota_pc = "idle"

(***************************************************************************)
(* on_command(msg).  io is the end of open() in safe_write_json ("ok" or   *)
(* "IOError"), get the end of requests.get ("raise", or the status code),  *)
(* o what the environment does in extract_and_run_tar_gz.                  *)
(***************************************************************************)
Command(name, args, ack_id) ==
    [kind |-> "command", name |-> name, args |-> args, ack_id |-> ack_id]

\* params = " " + param + params: the arguments in reverse order
RECURSIVE join_params_reversed(_, _, _)
join_params_reversed(args, k, params) ==
    IF k > Len(args) THEN params
    ELSE join_params_reversed(args, k + 1, " " \o args[k] \o params)

\* lines 198-200
RECURSIVE join_params(_, _, _)
join_params(args, k, params) ==
    IF k > Len(args) THEN params
    ELSE join_params(args, k + 1, params \o " " \o args[k])

\* lines 204-208
comm_dict(name, params, t) ==
    JObj(<<JMember("command", JStr(name)), JMember("parameters", JStr(params)),
           JMember("timestamp", JInt(t))>>)

\* len(msg.command_args) >= 1 in place of == 1
accepts_more_args(args) == Len(args) >= 1

\* line 166
valid_download_args(args) == Len(args) = 1

\* an acknowledgement whether or not the command carries a token
always_ack(ack_id) == TRUE

\* line 212
needs_ack(ack_id) == ack_id # None

OnCommand(m, io, get, o) ==
    /\ CallbackReady
    /\ last_cb' = m
    /\ IF m.name = "file-download"
       THEN IF valid_download_args(m.args)
            THEN /\ restarts < MaxRestarts
                 /\ IF get = "raise"
                    THEN /\ events' = <<Ev("requests.get", "raise", 0)>>
                         /\ cb_result' = "raised"
                         /\ UNCHANGED <<pc, exit_status, exit_cause, connected, argv,
                                        orig_argv, restarts, mainlog, install_sh, pkg>>
                    ELSE LET saved == IF get = "200" THEN <<Ev("write", "package.tar.gz", 0)>>
                                      ELSE <<>>
                             before == <<Ev("requests.get", get, 0)>> \o saved
                                       \o <<Ev("send_command_ack", "CMD_SUCCESS_WITH_ACK", 0)>>
                             r == extract_and_run_tar_gz(o, install_sh, 0)
                         IN  \* tar cannot extract a file that does not exist
                             /\ (pkg \/ get = "200") \/ (o.tar = "fail" /\ ~o.partial)
                             /\ pkg' = (pkg \/ get = "200")
                             /\ install_sh' = r.sh
                             /\ IF r.ret = "raised"
                                THEN /\ events' = before \o r.ev
                                     /\ cb_result' = "raised"
                                     /\ UNCHANGED <<pc, exit_status, exit_cause, connected,
                                                    argv, orig_argv, restarts, mainlog>>
                                ELSE /\ events' = before \o r.ev \o <<Ev("os.execv", "", 0)>>
                                     /\ cb_result' = "restarted"
                                     /\ Execv
                 /\ UNCHANGED files
            ELSE /\ events' = <<Ev("send_command_ack", "CMD_FAILED", 0)>>
                 /\ cb_result' = "returned"
                 /\ UNCHANGED <<files, pc, exit_status, exit_cause, connected, argv,
                                orig_argv, restarts, mainlog, install_sh, pkg>>
       ELSE /\ IF io = "ok"
               THEN /\ files' = [files EXCEPT ![COMMAND_BUFFER_PATH] =
                            safe_write_json(@, comm_dict(m.name, join_params(m.args, 1, ""), now))]
                    /\ events' = <<Ev("safe_write_json", COMMAND_BUFFER_PATH, 0)>>
                            \o (IF needs_ack(m.ack_id)
                                THEN <<Ev("send_command_ack", "CMD_SUCCESS_WITH_ACK", 0)>>
                                ELSE <<>>)
                    /\ cb_result' = "returned"
               ELSE /\ events' = <<Ev("safe_write_json", "IOError", 0)>>
                    /\ cb_result' = "raised"
                    /\ UNCHANGED files
            /\ UNCHANGED <<pc, exit_status, exit_cause, connected, argv, orig_argv,
                           restarts, mainlog, install_sh, pkg>>
    /\ UNCHANGED now
    /\ UNCHANGED storevars /\ UNCHANGED otavars

(***************************************************************************)
(* Initial states of the agent, and the messages and outcomes drawn.       *)
(***************************************************************************)
StaleCommand == FText(json_dump(comm_dict("stale", " x", StartTime - 1)))
Telemetry == FText(json_dump(JObj(<<JMember("temp", JInt(21))>>)))

OrigArgvs == {<<ScriptFile>>, <<"iotc-pnp-app.py", "--verbose">>}

AgentInit(commandFiles, dataFiles, argvs) ==
    /\ files \in [Paths -> commandFiles \cup dataFiles]
    /\ files[COMMAND_BUFFER_PATH] \in commandFiles
    /\ files[DATA_BUFFER_PATH] \in dataFiles
    /\ written = [p \in Paths |-> NotWritten]
    /\ readres = NoRead
    /\ LockIdle
    /\ pc = "start" /\ exit_status = -1 /\ exit_cause = "" /\ connected = FALSE
    /\ orig_argv \in argvs /\ argv = orig_argv /\ restarts = 0
    /\ now = StartTime /\ install_sh = FALSE /\ pkg = FALSE
    /\ mainlog = <<>> /\ events = <<>> /\ cb_result = "none" /\ last_cb = NoMessage
    /\ ota_pc = "idle" /\ ota_urls = <<>> /\ ota_i = 0 /\ extraction_success = FALSE

AckIds == {None, "ack-7"}
ArgValues == {"now", "-m \"hi\""}
Url == "https://host/files/package.tar.gz"

ForwardMessages ==
    {Command("reboot", a, k) : a \in SeqsUpTo(ArgValues, MaxArgs), k \in AckIds}
        \cup {Command("file-downloads", <<>>, k) : k \in AckIds}
DownloadMessages ==
    {Command("file-download", a, k) : a \in SeqsUpTo({Url}, MaxArgs), k \in AckIds}

CleanExtract ==
    [tar |-> "ok", has_install |-> FALSE, partial |-> FALSE,
     run |-> "ok", rm1 |-> TRUE, rm2 |-> TRUE]

(***************************************************************************)
(* The Command Relay: a connected agent receiving commands of every name   *)
(* and argument count.  Here every download fails in requests.get; the     *)
(* update specification below follows the downloads that go on.            *)
(***************************************************************************)
RelayInit == AgentInit({FAbsent, StaleCommand}, {Telemetry}, {<<ScriptFile>>})

RelayNext ==
    \/ Startup("ok")
    \/ Iteration(TRUE)
    \/ Wake
    \/ \E m \in ForwardMessages, io \in {"ok", "IOError"} : OnCommand(m, io, "200", CleanExtract)
    \/ \E m \in DownloadMessages : OnCommand(m, "ok", "raise", CleanExtract)

SpecRelay == RelayInit /\ [][RelayNext]_vars

IsForward(m) == m.kind = "command" /\ m.name # "file-download"
IsBadDownload(m) == m.kind = "command" /\ m.name = "file-download" /\ Len(m.args) # 1
IsDownload(m) == m.kind = "command" /\ m.name = "file-download" /\ Len(m.args) = 1

AckFailed == Ev("send_command_ack", "CMD_FAILED", 0)
AckSuccess == Ev("send_command_ack", "CMD_SUCCESS_WITH_ACK", 0)
BufferWritten == Ev("safe_write_json", COMMAND_BUFFER_PATH, 0)

\* C4: for a 'file-download' command whose argument count is not exactly 1,
\* on_command sends exactly one CMD_FAILED acknowledgement and does nothing
\* else: no network request, no write of package.tar.gz, no extraction, no
\* Command Buffer write and no restart.
C4_BadArgsOnlyAckFailed ==
    [][(cb_result' # "none" /\ IsBadDownload(last_cb'))
        => (/\ events' = <<AckFailed>>
            /\ cb_result' = "returned"
            /\ UNCHANGED <<files, pkg, install_sh, pc, argv, restarts, connected,
                           exit_status>>)]_vars

\* a 'file-download' command with two arguments was handled
C4_Witness ==
    /\ cb_result = "returned" /\ IsBadDownload(last_cb) /\ Len(last_cb.args) = 2
    /\ events = <<AckFailed>>

\* the arguments in their order, each preceded by one space
RECURSIVE SpacedArgs(_)
SpacedArgs(args) ==
    IF args = <<>> THEN ""
    ELSE SpacedArgs(SubSeq(args, 1, Len(args) - 1)) \o (" " \o args[Len(args)])

\* C5: after on_command returns for a command whose name is not
\* 'file-download', the Command Buffer file holds exactly one document, with
\* command = the name, parameters = the arguments in their order each
\* preceded by one space, timestamp = the epoch second of the write.
C5_BufferHoldsCommand ==
    (cb_result = "returned" /\ IsForward(last_cb))
        => LET doc == safe_read_json(files[COMMAND_BUFFER_PATH])
           IN  /\ doc.ok
               /\ doc.v = JObj(<<JMember("command", JStr(last_cb.name)),
                                 JMember("parameters", JStr(SpacedArgs(last_cb.args))),
                                 JMember("timestamp", JInt(now))>>)

\* a command with two arguments, one of them with quotes, was forwarded
C5_Witness ==
    /\ cb_result = "returned" /\ IsForward(last_cb)
    /\ Len(last_cb.args) = 2 /\ last_cb.args[1] # last_cb.args[2]
    /\ now > StartTime

(***************************************************************************)
(* The Command Buffer over a sequence of commands, with the external       *)
(* consumer reading it through the store at any time.                      *)
(***************************************************************************)
ConsumerRead == JsonRead(COMMAND_BUFFER_PATH)

BufferMessages ==
    {Command(n, a, None) : n \in {"reboot", "led"}, a \in SeqsUpTo({"now"}, MaxArgs)}

BufferNext ==
    \/ Startup("ok")
    \/ Iteration(TRUE)
    \/ Wake
    \/ \E m \in BufferMessages, io \in {"ok", "IOError"} : OnCommand(m, io, "200", CleanExtract)
    \/ ConsumerRead

SpecBuffer == RelayInit /\ [][BufferNext]_vars

\* the text json.dump gives the document of command m written at time t
CommandText(m, t) ==
    json_dump(JObj(<<JMember("command", JStr(m.name)),
                     JMember("parameters", JStr(SpacedArgs(m.args))),
                     JMember("timestamp", JInt(t))>>))

\* C16: every non-update command that on_command handles leaves in the
\* Command Buffer file exactly the text of its own document, whatever the
\* file held before, and nothing else changes the file: neither the session
\* loop nor a read by the consumer nor a command whose write failed.
C16_LastCommandOnly ==
    [][/\ (IsForward(last_cb') /\ cb_result' = "returned")
            => files'[COMMAND_BUFFER_PATH] = FText(CommandText(last_cb', now'))
       /\ files'[COMMAND_BUFFER_PATH] # files[COMMAND_BUFFER_PATH]
            => (IsForward(last_cb') /\ cb_result' = "returned")]_vars

\* the consumer read a longer document of an earlier command, and the file
\* now holds the shorter document of the latest one
C16_Witness ==
    /\ IsForward(last_cb) /\ cb_result = "returned"
    /\ readres.valid /\ readres.ok
    /\ Len(json_dump(readres.v)) > Len(files[COMMAND_BUFFER_PATH].text)
    /\ files[COMMAND_BUFFER_PATH].text = CommandText(last_cb, now)
    /\ readres.v.kids[1].kids[1].s # last_cb.name

Count(ev, e) == Cardinality({k \in 1..Len(ev) : ev[k] = e})
Acks(ev) == {k \in 1..Len(ev) : ev[k].e = "send_command_ack"}

\* C6: for a command whose name is not 'file-download', on_command sends a
\* CMD_SUCCESS_WITH_ACK acknowledgement if and only if the command carries
\* an ack token, sends at most one acknowledgement, and sends it only after
\* the Command Buffer write has completed.
C6_AckIffToken ==
    (cb_result # "none" /\ IsForward(last_cb))
        => /\ cb_result = "returned"
                => (Count(events, AckSuccess) = 1 <=> last_cb.ack_id # None)
           /\ Cardinality(Acks(events)) <= 1
           /\ \A k \in Acks(events) :
                /\ events[k] = AckSuccess
                /\ \E j \in 1..(k - 1) : events[j] = BufferWritten

\* a command with an ack token was forwarded and acknowledged
C6_Witness ==
    /\ cb_result = "returned" /\ IsForward(last_cb) /\ last_cb.ack_id # None
    /\ events = <<BufferWritten, AckSuccess>>

(***************************************************************************)
(* on_ota(msg), one step per loop iteration.  dl is the end of             *)
(* urlretrieve ("ok" or "error"), o what the environment does in           *)
(* extract_and_run_tar_gz.                                                 *)
(***************************************************************************)
Ota(urls) == [kind |-> "ota", name |-> "2.0", args |-> urls, ack_id |-> None]

\* a loop that goes on after a failed archive
ota_never_breaks(success) == FALSE

\* line 246: if extraction_success is False: break
ota_break(success) == success = FALSE

\* lines 227-231
OtaStart(urls) ==
    /\ CallbackReady
    /\ restarts < MaxRestarts
    /\ last_cb' = Ota(urls)
    /\ events' = <<Ev("send_ota_ack", "OTA_DOWNLOADING", 0)>>
    /\ cb_result' = "running"
    /\ extraction_success' = FALSE
    /\ ota_urls' = urls
    /\ ota_i' = 1
    /\ ota_pc' = IF urls = <<>> THEN "finish" ELSE "loop"
    /\ UNCHANGED <<files, pc, exit_status, exit_cause, connected, argv, orig_argv,
                   restarts, now, install_sh, pkg, mainlog>>
    /\ UNCHANGED storevars

\* lines 234-249: the loop body for the artifact ota_i
OtaArtifact(dl, o) ==
    /\ ota_pc = "loop"
    /\ LET i == ota_i
           file_name == ota_urls[i]
           archive == endswith(file_name, ".tar.gz")
           r == extract_and_run_tar_gz(o, install_sh, i)
           next_pc == IF i = Len(ota_urls) THEN "finish" ELSE "loop"
       IN  \* the outcome of a step that is not taken is not drawn
           /\ (dl = "error" \/ ~archive) => o = CleanExtract
           /\ IF dl = "error"
              THEN /\ events' = Append(events, Ev("urlretrieve", "error", i))
                   /\ ota_pc' = "finish"
                   /\ UNCHANGED <<ota_i, extraction_success, install_sh, cb_result>>
              ELSE IF archive
              THEN /\ events' = Append(events, Ev("urlretrieve", "ok", i)) \o r.ev
                   /\ install_sh' = r.sh
                   /\ IF r.ret = "raised"
                      THEN /\ ota_pc' = "idle"
                           /\ cb_result' = "raised"
                           /\ UNCHANGED <<ota_i, extraction_success>>
                      ELSE /\ extraction_success' = (r.ret = "True")
                           /\ IF ota_break(r.ret = "True")
                              THEN ota_pc' = "finish" /\ UNCHANGED ota_i
                              ELSE ota_pc' = next_pc /\ ota_i' = i + 1
                           /\ UNCHANGED cb_result
              ELSE /\ events' = Append(events, Ev("urlretrieve", "ok", i))
                                \o <<Ev("unhandled_format", file_name, i)>>
                   /\ ota_pc' = next_pc
                   /\ ota_i' = i + 1
                   /\ UNCHANGED <<extraction_success, install_sh, cb_result>>
    /\ UNCHANGED <<files, pc, exit_status, exit_cause, connected, argv, orig_argv,
                   restarts, now, pkg, mainlog, last_cb, ota_urls>>
    /\ UNCHANGED storevars

\* the restart is reached whatever the loop did
ota_always_successful(success) == TRUE

\* line 252: if extraction_success is True
ota_successful(success) == success = TRUE

\* lines 252-261
OtaFinish ==
    /\ ota_pc = "finish"
    /\ ota_pc' = "idle"
    /\ IF ota_successful(extraction_success)
       THEN /\ events' = events \o <<Ev("send_ota_ack", "OTA_DOWNLOAD_DONE", 0),
                                     Ev("os.execv", "", 0)>>
            /\ cb_result' = "restarted"
            /\ Execv
       ELSE /\ cb_result' = "returned"
            /\ UNCHANGED <<events, pc, exit_status, exit_cause, connected, argv,
                           orig_argv, restarts, mainlog>>
    /\ UNCHANGED <<files, now, install_sh, pkg, last_cb, ota_urls, ota_i,
                   extraction_success>>
    /\ UNCHANGED storevars

(***************************************************************************)
(* The Update Engine: OTA messages with every artifact list and every      *)
(* outcome, 'file-download' commands with one argument, and the restarts.  *)
(***************************************************************************)
FileNames == {"app.tar.gz", "notes.tar"}

UpdateInit == AgentInit({StaleCommand}, {Telemetry}, OrigArgvs)

UpdateNext ==
    \/ Startup("ok")
    \/ Iteration(TRUE)
    \/ \E urls \in SeqsUpTo(FileNames, MaxUrls) : OtaStart(urls)
    \/ \E dl \in {"ok", "error"}, o \in ExtractOutcomes : OtaArtifact(dl, o)
    \/ OtaFinish
    \/ \E k \in AckIds, get \in {"raise", "200", "404"}, o \in ExtractOutcomes :
            /\ get = "raise" => o = CleanExtract
            /\ OnCommand(Command("file-download", <<Url>>, k), "ok", get, o)

SpecUpdate == UpdateInit /\ [][UpdateNext]_vars

Has(e) == \E k \in 1..Len(events) : events[k] = e

\* C1: on_ota reaches the restart only if every artifact of the list was
\* downloaded without error and every '.tar.gz' artifact was extracted and,
\* when install.sh was present, installed without error.
C1_RestartOnlyAfterFullSuccess ==
    (cb_result = "restarted" /\ last_cb.kind = "ota")
        => \A i \in 1..Len(last_cb.args) :
              /\ Has(Ev("urlretrieve", "ok", i))
              /\ endswith(last_cb.args[i], ".tar.gz")
                    => Has(Ev("extract_and_run_tar_gz", "True", i))

\* C2: for a 'file-download' command with one argument, on_command restarts
\* the process only when extract_and_run_tar_gz returned True.
C2_DownloadRestartsOnlyOnSuccess ==
    (cb_result = "restarted" /\ IsDownload(last_cb))
        => Has(Ev("extract_and_run_tar_gz", "True", 0))

IsFailure(e) ==
    \/ e.e = "tar" /\ e.a \in {"fail", "launch"}
    \/ e.e = "install.sh" /\ e.a \in {"nonzero", "error"}

Downloads == SelectSeq(events, LAMBDA e : e.e = "urlretrieve")

\* C3: on_ota processes the artifacts strictly in list order and, when the
\* extraction or the install script of artifact k fails, downloads and
\* extracts no artifact after k and does not restart the process.
C3_FailureStopsTheSet ==
    last_cb.kind = "ota"
        => /\ \A j \in 1..Len(Downloads) : Downloads[j].i = j
           /\ \A j \in 1..Len(events) : \A h \in 1..j : events[h].i <= events[j].i
                  \/ events[j].i = 0
           /\ \A k \in 1..Len(events) :
                 IsFailure(events[k])
                    => /\ \A j \in 1..Len(events) : events[j].i <= events[k].i
                       /\ \A j \in (k + 1)..Len(events) :
                             events[j].e \notin {"urlretrieve", "tar", "os.execv", "send_ota_ack"}
                       /\ cb_result # "restarted"

\* the install script of the first of two artifacts failed, on_ota returned
C3_Witness ==
    /\ last_cb.kind = "ota" /\ Len(last_cb.args) = 2
    /\ cb_result = "returned"
    /\ Has(Ev("install.sh", "nonzero", 1))

\* C9: every self-restart re-executes the agent with the original argument
\* vector.
C9_RestartKeepsArgv == restarts > 0 => argv = orig_argv

\* an error on an update path: a download that raised or ended with another
\* status than 200, a failure of tar or of its launch, a failure of the
\* install script, a failure to delete install.sh
IsUpdateError(e) ==
    \/ e.e = "requests.get" /\ e.a # "200"
    \/ e.e = "urlretrieve" /\ e.a = "error"
    \/ IsFailure(e)
    \/ e.e = "os.remove" /\ e.a = "fail"

IsUpdate(m) == m.kind = "ota" \/ IsDownload(m)

\* C13: an update callback in which an error occurred returns normally and
\* does not restart the process.
C13_ErrorsAreCaught ==
    (IsUpdate(last_cb) /\ cb_result # "running"
                       /\ \E k \in 1..Len(events) : IsUpdateError(events[k]))
        => /\ cb_result = "returned"
           /\ ~\E k \in 1..Len(events) : events[k].e = "os.execv"

OtaDone == Ev("send_ota_ack", "OTA_DOWNLOAD_DONE", 0)
OtaDownloading == Ev("send_ota_ack", "OTA_DOWNLOADING", 0)
ArchiveNames == {n \in FileNames : Slice(n, Len(n) - 6, Len(n)) = ".tar.gz"}

\* C18: on_ota sends OTA_DOWNLOAD_DONE or restarts only after an artifact
\* named '.tar.gz' was extracted with result True; with an empty list or a
\* list without such a name it runs no tar, sends no OTA_DOWNLOAD_DONE and
\* returns without restarting; an artifact of another format is logged after
\* its download and the artifact after it is downloaded all the same.
C18_RestartNeedsArchive ==
    last_cb.kind = "ota"
        => /\ (Has(OtaDone) \/ Has(Ev("os.execv", "", 0)) \/ cb_result = "restarted")
                => \E i \in 1..Len(last_cb.args) :
                      /\ last_cb.args[i] \in ArchiveNames
                      /\ Has(Ev("extract_and_run_tar_gz", "True", i))
           /\ (\A i \in 1..Len(last_cb.args) : last_cb.args[i] \notin ArchiveNames)
                => /\ cb_result \in {"running", "returned"}
                   /\ \A k \in 1..Len(events) : events[k].e \notin {"tar", "install.sh"}
           /\ \A k \in 1..Len(events) :
                 events[k].e = "unhandled_format"
                    => /\ events[k].a = last_cb.args[events[k].i]
                       /\ events[k].a \notin ArchiveNames
                       /\ k > 1 /\ events[k - 1] = Ev("urlretrieve", "ok", events[k].i)
                       /\ (cb_result # "running" /\ events[k].i < Len(last_cb.args))
                             => \E j \in (k + 1)..Len(events) :
                                   events[j].e = "urlretrieve" /\ events[j].i = events[k].i + 1

\* a list of two artifacts, none of them an archive: both were downloaded
\* and logged, and on_ota returned
C18_Witness ==
    /\ last_cb.kind = "ota" /\ cb_result = "returned"
    /\ last_cb.args = <<"notes.tar", "notes.tar">>
    /\ events = <<OtaDownloading,
                  Ev("urlretrieve", "ok", 1), Ev("unhandled_format", "notes.tar", 1),
                  Ev("urlretrieve", "ok", 2), Ev("unhandled_format", "notes.tar", 2)>>

ScriptRuns(i) == SelectSeq(events, LAMBDA e : e.e = "install.sh" /\ e.i = i)
LastExtract(k) ==
    /\ events[k].e = "extract_and_run_tar_gz"
    /\ \A j \in (k + 1)..Len(events) : events[j].e # "extract_and_run_tar_gz"

\* C15: a call of extract_and_run_tar_gz whose extraction succeeded runs
\* install.sh exactly once if it is there and not at all otherwise, leaves
\* no install.sh behind, answers True exactly when the script was absent or
\* ended with status zero and False otherwise, and never runs an install.sh
\* that an earlier extraction left behind.
C15_InstallScriptRunsOnce ==
    IsUpdate(last_cb)
        => \A k \in 1..Len(events) :
              (events[k].e = "extract_and_run_tar_gz" /\ Has(Ev("tar", "ok", events[k].i)))
                 => LET i == events[k].i
                        present == ~Has(Ev("os.path.isfile", "absent", i))
                    IN  /\ Len(ScriptRuns(i)) = IF present THEN 1 ELSE 0
                        /\ LastExtract(k) => ~install_sh
                        /\ events[k].a = "True"
                              <=> (~present \/ ScriptRuns(i) = <<Ev("install.sh", "ok", i)>>)
                        /\ events[k].a = "False"
                              <=> (present /\ ScriptRuns(i) # <<Ev("install.sh", "ok", i)>>)
                        /\ ~Has(Ev("os.path.isfile", "stale", i))

\* the artifact handed to tar by the command was written by this command
DownloadedNow(i) ==
    IF last_cb.kind = "ota" THEN Has(Ev("urlretrieve", "ok", i))
                            ELSE Has(Ev("write", "package.tar.gz", 0))

\* C14: on both update paths tar and install.sh run for an artifact only
\* after that artifact was downloaded successfully by the same callback.
C14_ExtractOnlyDownloaded ==
    IsUpdate(last_cb)
        => \A k \in 1..Len(events) :
              events[k].e \in {"tar", "install.sh"} => DownloadedNow(events[k].i)

(***************************************************************************)
(* The whole agent: the session loop with its exits, the operator          *)
(* interrupt, disconnections, commands and restarts.                       *)
(***************************************************************************)
FailedExtract ==
    [tar |-> "fail", has_install |-> FALSE, partial |-> FALSE,
     run |-> "ok", rm1 |-> TRUE, rm2 |-> TRUE]

Telemetry2 == JObj(<<JMember("temp", JInt(22))>>)

Init == AgentInit({FAbsent, StaleCommand}, {FAbsent, Telemetry}, OrigArgvs)

Next ==
    \/ \E cfg \in {"ok", "DeviceConfigError"} : Startup(cfg)
    \/ \E conn \in BOOLEAN : Iteration(conn)
    \/ Wake
    \/ Interrupt
    \/ OnDisconnect
    \/ ProducerWrite(Telemetry2)
    \/ \E k \in AckIds : OnCommand(Command("reboot", <<"now">>, k), "ok", "200", CleanExtract)
    \/ \E o \in {CleanExtract, FailedExtract} :
            OnCommand(Command("file-download", <<Url>>, None), "ok", "200", o)

Spec == Init /\ [][Next]_vars

Before(log, a, b) ==
    \E j \in 1..Len(log) : \E k \in (j + 1)..Len(log) : log[j] = a /\ log[k] = b
InLog(a) == \E j \in 1..Len(mainlog) : mainlog[j] = a

lock_mode_exclusive(op) == "LOCK_EX"

\* the flock each function asks for
lock_mode(op) == IF op = "read" THEN "LOCK_SH" ELSE "LOCK_EX"

\* flock(2): a shared lock is granted unless another process holds the
\* exclusive one, an exclusive lock only when no other process holds a lock
flock_grants(p, mode) ==
    IF mode = "LOCK_SH"
      THEN \A q \in Procs \ {p} : locks[q] # "LOCK_EX"
      ELSE \A q \in Procs \ {p} : locks[q] = "none"

\* n zero bytes, the hole a write past the end of a file leaves
RECURSIVE Zeros(_)
Zeros(n) == IF n <= 0 THEN "" ELSE "@" \o Zeros(n - 1)

\* write(2) of data at offset pos of a file with the given text
WriteAt(text, pos, data) ==
    Slice(text, 1, pos) \o Zeros(pos - Len(text)) \o data
        \o Slice(text, pos + Len(data) + 1, Len(text))

\* the document process p writes
LockDoc(p) == JObj(<<JMember("temp", JInt(20 + p))>>)

TheFile == DATA_BUFFER_PATH

\* open(path, "r") / open(path, "w"): the read mode needs the file, the
\* write mode creates or truncates it, before any lock is asked for
POpen(p, op) ==
    /\ procs[p].pc = "idle"
    /\ IF op = "read" /\ ~files[TheFile].exists
         THEN /\ procs' = [procs EXCEPT ![p] = [IdleProc EXCEPT !.res = "FileNotFoundError"]]
              /\ UNCHANGED files
         ELSE /\ procs' = [procs EXCEPT ![p] = [IdleProc EXCEPT !.op = op, !.pc = "flock"]]
              /\ files' = IF op = "write"
                            THEN [files EXCEPT ![TheFile] = open_w(@)]
                            ELSE files
    /\ UNCHANGED <<locks, written, readres>>
    /\ UNCHANGED agentvars

\* fcntl.flock(f, LOCK_SH) / fcntl.flock(f, LOCK_EX): returns once granted
PLock(p) ==
    /\ procs[p].pc = "flock"
    /\ flock_grants(p, lock_mode(procs[p].op))
    /\ locks' = [locks EXCEPT ![p] = lock_mode(procs[p].op)]
    /\ procs' = [procs EXCEPT ![p].pc = "locked"]
    /\ UNCHANGED <<files, written, readres>>
    /\ UNCHANGED agentvars

\* json.load(f): reads the file as it is now and parses it; a failure leaves
\* the with block by an exception, skipping the unlock
PLoad(p) ==
    /\ procs[p].pc = "locked" /\ procs[p].op = "read"
    /\ LET r == safe_read_json(files[TheFile])
       IN  procs' = [procs EXCEPT ![p].res = IF r.ok THEN "ok" ELSE r.err,
                                  ![p].pc = IF r.ok THEN "unlock" ELSE "close"]
    /\ UNCHANGED <<files, locks, written, readres>>
    /\ UNCHANGED agentvars

\* json.dump(data, f, indent=4): the text goes to the buffer of the file
\* object, which hands it to the file at once when it is full (flush) or
\* keeps it until the file is closed
PDump(p, flush) ==
    /\ procs[p].pc = "locked" /\ procs[p].op = "write"
    /\ LET text == json_dump(LockDoc(p))
       IN  IF flush
             THEN /\ files' = [files EXCEPT ![TheFile] =
                                   FText(WriteAt(@.text, procs[p].pos, text))]
                  /\ procs' = [procs EXCEPT ![p].pos = @ + Len(text),
                                            ![p].pc = "unlock"]
             ELSE /\ procs' = [procs EXCEPT ![p].buf = text, ![p].pc = "unlock"]
                  /\ UNCHANGED files
    /\ UNCHANGED <<locks, written, readres>>
    /\ UNCHANGED agentvars

\* fcntl.flock(f, LOCK_UN)
PUnlock(p) ==
    /\ procs[p].pc = "unlock"
    /\ locks' = [locks EXCEPT ![p] = "none"]
    /\ procs' = [procs EXCEPT ![p].pc = "close"]
    /\ UNCHANGED <<files, written, readres>>
    /\ UNCHANGED agentvars

\* the end of the with block: the buffered text is written, the file is
\* closed and with it a lock that is still held is given back
PClose(p) ==
    /\ procs[p].pc = "close"
    /\ files' = IF procs[p].buf = ""
                  THEN files
                  ELSE [files EXCEPT ![TheFile] =
                            FText(WriteAt(@.text, procs[p].pos, procs[p].buf))]
    /\ locks' = [locks EXCEPT ![p] = "none"]
    /\ procs' = [procs EXCEPT ![p] = IdleProc]
    /\ UNCHANGED <<written, readres>>
    /\ UNCHANGED agentvars

\* the file holds a complete document when the processes start
LockInit ==
    /\ files = [p \in Paths |-> IF p = TheFile THEN Telemetry ELSE FAbsent]
    /\ written = [p \in Paths |-> NotWritten]
    /\ readres = NoRead
    /\ LockIdle
    /\ AgentIdle

LockNext ==
    \/ \E p \in Procs, op \in {"read", "write"} : POpen(p, op)
    \/ \E p \in Procs : PLock(p)
    \/ \E p \in Procs : PLoad(p)
    \/ \E p \in Procs, flush \in BOOLEAN : PDump(p, flush)
    \/ \E p \in Procs : PUnlock(p)
    \/ \E p \in Procs : PClose(p)

SpecLock == LockInit /\ [][LockNext]_vars

\* a process inside a call goes on to its end (json.load, enabled whenever
\* a reader holds its lock, returns or raises); a process waiting in flock
\* is woken at every release of the lock and so gets it if it is free again
\* and again
LockFairness ==
    \A p \in Procs :
        /\ WF_vars(PUnlock(p) \/ PClose(p)
                   \/ \E flush \in BOOLEAN : PDump(p, flush))
        /\ []<>~(procs[p].pc = "locked" /\ procs[p].op = "read")
        /\ SF_vars(PLock(p))

SpecLockFair == SpecLock /\ LockFairness

Waiting(p) == procs[p].pc = "flock"
Blocked(p) == Waiting(p) /\ ~flock_grants(p, lock_mode(procs[p].op))
Holding(p) == locks[p] # "none"

C12_LockedReadIsComplete ==
    \A p \in Procs :
        (procs[p].op = "read" /\ procs[p].res # "") => procs[p].res = "ok"

(***************************************************************************)
(* The session loop left to run: no operator interrupt, a Telemetry Buffer *)
(* that stays readable, disconnections at any time.  The loop goes on      *)
(* after the last tick of the clock of the model, with the clock standing. *)
(***************************************************************************)
WakeLate ==
    /\ pc = "sleep" /\ ota_pc = "idle"
    /\ now >= StartTime + MaxTicks * DATA_FREQUENCY
    /\ pc' = "loop"
    /\ mainlog' = <<>>
    /\ ClearCallback
    /\ UNCHANGED <<files, exit_status, exit_cause, connected, argv, orig_argv,
                   restarts, now, install_sh, pkg>>
    /\ UNCHANGED storevars /\ UNCHANGED otavars

SessionNext ==
    \/ Startup("ok")
    \/ \E conn \in BOOLEAN : Iteration(conn)
    \/ Wake
    \/ WakeLate
    \/ OnDisconnect
    \/ ProducerWrite(Telemetry2)
    \/ \E m \in BufferMessages : OnCommand(m, "ok", "200", CleanExtract)

SpecSession == RelayInit /\ [][SessionNext]_vars

\* the loop keeps being scheduled: the startup, the sleep and the iteration
\* at the top of the loop (enabled whenever the agent is there) all end
SessionFairness ==
    /\ WF_vars(Startup("ok"))
    /\ WF_vars(Wake \/ WakeLate)
    /\ []<>(pc # "loop")

SpecSessionFair == SpecSession /\ SessionFairness

\* C17: a disconnection event leaves the loop, its log, the files and the
\* clock as they are; an iteration that finds the client not connected calls
\* connect first, and reads and publishes telemetry only if the client is
\* connected after that; and a loop that is not connected gets to a connect
\* call that succeeds or to the exit with status 2.
C17_ReconnectAtLoopTop ==
    /\ [][(connected /\ ~connected' /\ last_cb'.kind = "disconnect")
            => UNCHANGED <<pc, mainlog, files, exit_status, now, argv, restarts>>]_vars
    /\ [][(pc = "loop" /\ pc' # "loop")
            => /\ ~connected => mainlog'[1] = "connect"
               /\ InLog("send_telemetry")'
                    => /\ connected' /\ pc' = "sleep"
                       /\ ~InLog("not_connected")'
                       /\ ~connected => Before(mainlog', "connect", "safe_read_json")
                       /\ Before(mainlog', "safe_read_json", "send_telemetry")
               /\ ~connected'
                    => /\ ~InLog("safe_read_json")' /\ ~InLog("send_telemetry")'
                       /\ exit_status' = 2]_vars
    /\ (~connected /\ pc \in {"loop", "sleep"})
          ~> ((connected /\ InLog("connect")) \/ exit_status = 2)

\* the client was disconnected during the sleep and the next iteration
\* connected again and published
C17_Witness ==
    /\ pc = "sleep" /\ connected
    /\ mainlog = <<"connect", "safe_read_json", "send_telemetry">>
    /\ now > StartTime

\* C19: when the process has ended, the Command Buffer file is gone.
C19_ExitRemovesBuffer ==
    pc = "exited" => ~files[COMMAND_BUFFER_PATH].exists

OtaAcks == SelectSeq(events, LAMBDA e : e.e = "send_ota_ack")

\* C20: on_ota sends OTA_DOWNLOADING exactly once, before the first
\* download; it sends OTA_DOWNLOAD_DONE at most once, after everything done
\* for the artifacts, and exactly when the restart follows at once; and when
\* a download, an extraction or an install script of the message failed,
\* OTA_DOWNLOADING is the only acknowledgement sent.
C20_OtaAcks ==
    last_cb.kind = "ota"
        => /\ events[1] = OtaDownloading
           /\ Count(events, OtaDownloading) = 1
           /\ Count(events, OtaDone) <= 1
           /\ \A k \in 1..Len(OtaAcks) : OtaAcks[k] \in {OtaDownloading, OtaDone}
           /\ Has(OtaDone)
                => /\ Len(events) >= 3
                   /\ events[Len(events) - 1] = OtaDone
                   /\ events[Len(events)] = Ev("os.execv", "", 0)
           /\ Has(OtaDone) <=> cb_result = "restarted"
           /\ (\E k \in 1..Len(events) : IsUpdateError(events[k]))
                => OtaAcks = <<OtaDownloading>>

====
